---- MODULE Spec2Model ----
(***************************************************************************)
(* Model of ai-cz (src/src/index.ts): the encrypted token store            *)
(* (EncryptedTokenManager), the suggestion pipeline and the commit         *)
(* workflow (AICommitGenerator).                                           *)
(*                                                                         *)
(* Credentials, diffs and file contents are sequences of one-character     *)
(* strings; bytes are the numbers 0..255.  The cipher is a CBC chain with  *)
(* PKCS padding over 16-byte blocks; the block permutation of AES is       *)
(* replaced by a keyed permutation of each byte, and SHA-256 by a small    *)
(* mixing function.                                                        *)
(***************************************************************************)
EXTENDS Integers, Sequences, FiniteSets, TLC

VARIABLES configDir, tokenFile, machineId, ret, lastSet,
          pc, argv, gitDir, diff, token, response, suggestions,
          formatArgs, finalMessage, exitCode, log, calls

storeVars == <<configDir, tokenFile, machineId, ret, lastSet>>
runVars   == <<pc, argv, gitDir, diff, token, response, suggestions,
               formatArgs, finalMessage, exitCode, log, calls>>
vars      == <<storeVars, runVars>>

(***************************************************************************)
(* Bounds of the model.                                                    *)
(***************************************************************************)
MaxIv       == 1    \* randomBytes draws one of the IVs IvSample(0..MaxIv)
MaxTokenLen == 1    \* longest short credential handed to setToken
NumMachines == 2    \* distinct platform/arch/home identities

(***************************************************************************)
(* Constants of the program and of its libraries.                          *)
(***************************************************************************)
HexBase   == 16     \* "hex" encoding
BlockSize == 16     \* randomBytes(16); the block size of aes-256-cbc
KeyLen    == 32     \* a SHA-256 digest, the key of aes-256-cbc
ByteRange == 256
Bytes     == 0 .. (ByteRange - 1)

(***************************************************************************)
(* Characters.                                                             *)
(***************************************************************************)
HexChars == <<"0", "1", "2", "3", "4", "5", "6", "7",
              "8", "9", "a", "b", "c", "d", "e", "f">>
HexDigits == { HexChars[i] : i \in 1..HexBase }
Colon  == ":"
NonHex == "z"

\* The one-byte (ASCII) characters the model writes, with their codes.
AsciiCode == (" " :> 32) @@ ("-" :> 45) @@ ("a" :> 97) @@ ("b" :> 98)
             @@ ("c" :> 99) @@ ("d" :> 100) @@ ("k" :> 107) @@ ("s" :> 115)
AsciiChars == DOMAIN AsciiCode
AsciiLimit == 128
Replacement   == "U+FFFD"   \* the replacement character
LoneSurrogate == "U+D800"   \* an unpaired UTF-16 surrogate code unit
ReplacementBytes == <<239, 191, 189>>   \* U+FFFD in UTF-8

\* null and a missing file are one-element tuples, so that they compare with
\* strings (sequences of characters) and can never equal one.
Null   == <<"null">>
NoFile == <<"ENOENT">>

(***************************************************************************)
(* Sequence helpers.                                                       *)
(***************************************************************************)
Drop(s, n) == IF n >= Len(s) THEN <<>> ELSE SubSeq(s, n + 1, Len(s))
Take(s, n) == IF n >= Len(s) THEN s ELSE SubSeq(s, 1, n)

RECURSIVE Concat(_)
Concat(ss) == IF ss = <<>> THEN <<>> ELSE Head(ss) \o Concat(Tail(ss))

SeqsUpTo(S, n) == UNION { [1..k -> S] : k \in 0..n }

(***************************************************************************)
(* Hex: Buffer#toString("hex") and Buffer.from(s, "hex").                  *)
(***************************************************************************)
HexValue(c) == (CHOOSE i \in 1..HexBase : HexChars[i] = c) - 1

ToHex(bytes) ==
  [i \in 1..(2 * Len(bytes)) |->
     IF i % 2 = 1 THEN HexChars[(bytes[(i + 1) \div 2] \div HexBase) + 1]
     ELSE HexChars[(bytes[i \div 2] % HexBase) + 1]] \o <<>>

\* Decodes pairs of hex digits and stops at the first pair that is not two
\* hex digits, or when fewer than two characters remain.
RECURSIVE BufferFromHex(_)
BufferFromHex(s) ==
  IF Len(s) < 2 \/ s[1] \notin HexDigits \/ s[2] \notin HexDigits
  THEN <<>>
  ELSE <<HexValue(s[1]) * HexBase + HexValue(s[2])>> \o BufferFromHex(Drop(s, 2))

\* String.prototype.split(":")
RECURSIVE Split(_)
Split(s) ==
  IF \A i \in 1..Len(s) : s[i] # Colon
  THEN <<s>>
  ELSE LET i == CHOOSE j \in 1..Len(s) :
                  s[j] = Colon /\ \A m \in 1..(j - 1) : s[m] # Colon
       IN <<Take(s, i - 1)>> \o Split(Drop(s, i))

(***************************************************************************)
(* UTF-8: cipher.update(text, "utf8", ...) and decipher output "utf8".     *)
(***************************************************************************)
CharCode(c) == AsciiCode[c]

\* The character of an ASCII code; codes the model never writes keep their
\* number.
Chr(b) ==
  IF \E c \in AsciiChars : AsciiCode[c] = b
  THEN CHOOSE c \in AsciiChars : AsciiCode[c] = b
  ELSE "x" \o ToString(b)

\* An unpaired surrogate has no UTF-8 form and is written as U+FFFD.
Utf8Encode(text) ==
  Concat([i \in 1..Len(text) |->
            IF text[i] \in AsciiChars THEN <<CharCode(text[i])>>
            ELSE ReplacementBytes])

\* Bytes that are not ASCII and not the encoding of U+FFFD decode to U+FFFD
\* (other multi-byte characters are not told apart).
RECURSIVE Utf8Decode(_)
Utf8Decode(bytes) ==
  IF bytes = <<>> THEN <<>>
  ELSE IF bytes[1] < AsciiLimit
       THEN <<Chr(bytes[1])>> \o Utf8Decode(Tail(bytes))
  ELSE IF Len(bytes) >= 3 /\ Take(bytes, 3) = ReplacementBytes
       THEN <<Replacement>> \o Utf8Decode(Drop(bytes, 3))
  ELSE <<Replacement>> \o Utf8Decode(Tail(bytes))

(***************************************************************************)
(* Key derivation and the cipher.                                          *)
(***************************************************************************)
MachineIds == 1 .. NumMachines

\* SHA-256 of platform + arch + homedir, as a mixing function of the identity.
generateEncryptionKey(m) ==
  [i \in 1..KeyLen |-> (m * 31 + i * i * 7 + m * i) % ByteRange] \o <<>>

\* The keyed permutation of the byte at position j of a block.
BlockKey(key, j) == (key[j] + 3 * key[j + BlockSize]) % ByteRange

Pos(i) == ((i - 1) % BlockSize) + 1

PkcsPad(bytes) ==
  LET n == BlockSize - (Len(bytes) % BlockSize)
  IN bytes \o [i \in 1..n |-> n]

ValidPadding(bytes) ==
  /\ Len(bytes) > 0
  /\ LET n == bytes[Len(bytes)]
     IN /\ n \in 1..BlockSize
        /\ n <= Len(bytes)
        /\ \A i \in (Len(bytes) - n + 1)..Len(bytes) : bytes[i] = n

PkcsUnpad(bytes) == Take(bytes, Len(bytes) - bytes[Len(bytes)])

CbcEncrypt(key, iv, plain) ==
  LET c[i \in 1..Len(plain)] ==
        (plain[i] + (IF i <= BlockSize THEN iv[i] ELSE c[i - BlockSize])
           + BlockKey(key, Pos(i))) % ByteRange
  IN [i \in 1..Len(plain) |-> c[i]] \o <<>>

\* A decryption that does not chain the first block with the stored IV.
CbcDecryptNoIv(key, iv, ct) ==
  [i \in 1..Len(ct) |->
     (ct[i] - BlockKey(key, Pos(i))
        - (IF i <= BlockSize THEN 0 ELSE ct[i - BlockSize])
        + 2 * ByteRange) % ByteRange] \o <<>>

CbcDecrypt(key, iv, ct) ==
  [i \in 1..Len(ct) |->
     (ct[i] - BlockKey(key, Pos(i))
        - (IF i <= BlockSize THEN iv[i] ELSE ct[i - BlockSize])
        + 2 * ByteRange) % ByteRange] \o <<>>

\* The IVs randomBytes(16) may return in the model.
IvSample(v) == [i \in 1..BlockSize |-> (v * (16 * i + 1)) % ByteRange] \o <<>>
IVs == { IvSample(v) : v \in 0..MaxIv }

encrypt(text, key, iv) ==
  ToHex(iv) \o <<Colon>> \o ToHex(CbcEncrypt(key, iv, PkcsPad(Utf8Encode(text))))

Throw == [threw |-> TRUE, value |-> Null]
Return(v) == [threw |-> FALSE, value |-> v]

decrypt(encryptedText, key) ==
  LET parts == Split(encryptedText)
  IN IF Len(parts) # 2 THEN Throw
     ELSE LET iv        == BufferFromHex(parts[1])
              encrypted == parts[2]
              ct        == BufferFromHex(encrypted)
              plain     == CbcDecrypt(key, iv, ct)
          IN IF Len(iv) # BlockSize THEN Throw             \* invalid IV
             ELSE IF Len(encrypted) % 2 # 0 THEN Throw    \* odd hex input
             ELSE IF ct = <<>> \/ Len(ct) % BlockSize # 0
                  THEN Throw                              \* wrong final block
             ELSE IF ~ValidPadding(plain) THEN Throw      \* bad decrypt
             ELSE Return(Utf8Decode(PkcsUnpad(plain)))

(***************************************************************************)
(* EncryptedTokenManager: getToken, setToken, hasToken, clearToken as      *)
(* functions of the filesystem state and of the I/O fault that occurs.     *)
(***************************************************************************)
\* A line printed by console.log, and one printed by console.error.
Out(text) == <<"log", text>>
Err(text) == <<"error", text>>

ReadFaults(file)   == IF file = NoFile THEN {"none"} ELSE {"none", "read"}
UnlinkFaults(file) == IF file = NoFile THEN {"none"} ELSE {"none", "unlink"}
\* "mkdir": mkdirSync throws; "open": writeFileSync throws before touching
\* the file; "truncate": it has truncated the file and throws before writing;
\* "partial": it throws after writing half of the data.
WriteFaults(dir) ==
  (IF dir THEN {} ELSE {"mkdir"}) \cup {"none", "open", "truncate", "partial"}

\* The body of the try block of getToken.
getTokenBody(file, key, fault) ==
  IF file = NoFile THEN Return(Null)
  ELSE IF fault = "read" THEN Throw
  ELSE LET d == decrypt(file, key)
       IN IF d.threw THEN Throw
          ELSE Return(IF d.value = <<>> THEN Null ELSE d.value)

\* getToken without its catch block: what the body throws reaches the caller.
getTokenNoCatch(file, key, fault) ==
  LET r == getTokenBody(file, key, fault)
  IN [raised |-> r.threw, value |-> r.value, out |-> <<>>]

getToken(file, key, fault) ==
  LET r == getTokenBody(file, key, fault)
  IN IF r.threw
     THEN [raised |-> FALSE, value |-> Null, out |-> <<Err("Failed to read stored token")>>]
     ELSE [raised |-> FALSE, value |-> r.value, out |-> <<>>]

hasToken(file, key, fault) == getToken(file, key, fault).value # Null

ensureConfigDir(dir, fault) ==
  IF dir THEN [threw |-> FALSE, dir |-> TRUE]
  ELSE IF fault = "mkdir" THEN [threw |-> TRUE, dir |-> FALSE]
  ELSE [threw |-> FALSE, dir |-> TRUE]

writeFileSync(file, data, fault) ==
  IF fault = "open" THEN [threw |-> TRUE, file |-> file]
  ELSE IF fault = "truncate" THEN [threw |-> TRUE, file |-> <<>>]
  ELSE IF fault = "partial"
       THEN [threw |-> TRUE, file |-> Take(data, Len(data) \div 2)]
  ELSE [threw |-> FALSE, file |-> data]

\* encrypted is this.encrypt(token), which cannot fail.
setToken(dir, file, encrypted, fault) ==
  LET e == ensureConfigDir(dir, fault)
      w == writeFileSync(file, encrypted, fault)
  IN IF e.threw
     THEN [raised |-> TRUE, dir |-> e.dir, file |-> file,
           out |-> <<Err("Failed to save token")>>]
     ELSE IF w.threw
     THEN [raised |-> TRUE, dir |-> e.dir, file |-> w.file,
           out |-> <<Err("Failed to save token")>>]
     ELSE [raised |-> FALSE, dir |-> e.dir, file |-> w.file,
           out |-> <<Out("API token saved securely")>>]

\* clearToken without the existsSync test: unlinkSync of a missing file fails
\* and, uncaught, reaches the caller.
clearTokenNoExistsCheck(file, fault) ==
  IF file = NoFile
  THEN [raised |-> TRUE, file |-> file, out |-> <<Err("Failed to clear token")>>]
  ELSE IF fault = "unlink"
       THEN [raised |-> FALSE, file |-> file, out |-> <<Err("Failed to clear token")>>]
  ELSE [raised |-> FALSE, file |-> NoFile, out |-> <<Out("API token cleared")>>]

clearToken(file, fault) ==
  IF file = NoFile THEN [raised |-> FALSE, file |-> file, out |-> <<>>]
  ELSE IF fault = "unlink"
       THEN [raised |-> FALSE, file |-> file, out |-> <<Err("Failed to clear token")>>]
  ELSE [raised |-> FALSE, file |-> NoFile, out |-> <<Out("API token cleared")>>]

(***************************************************************************)
(* The store as a state machine.                                           *)
(*   ret     : the last operation, the fault that occurred and its outcome *)
(*   lastSet : the credential of the last completed setToken, if nothing   *)
(*             has touched the store since                                 *)
(***************************************************************************)
TokenChars == {"s", LoneSurrogate}
LongToken  == <<"s", "k", "-", "a", "b", "c", "d", "a", "b", "c", "d",
                "a", "b", "c", "d", "a", "b">>
Tokens     == SeqsUpTo(TokenChars, MaxTokenLen) \cup {LongToken}

encryptionKey == generateEncryptionKey(machineId)

NoSet == Null

Result(op, fault, raised, value) ==
  [op |-> op, fault |-> fault, raised |-> raised, value |-> value]

\* No run of the command-line program is in progress.
RunIdle ==
  /\ pc = "idle"
  /\ argv = {}
  /\ gitDir = TRUE
  /\ diff = <<>>
  /\ token = Null
  /\ response = Null
  /\ suggestions = Null
  /\ formatArgs = Null
  /\ finalMessage = Null
  /\ exitCode = -1
  /\ log = <<>>
  /\ calls = {}

StoreInit ==
  /\ configDir = FALSE
  /\ tokenFile = NoFile
  /\ machineId = 1
  /\ ret = Result("new", "none", FALSE, Null)
  /\ lastSet = NoSet

Init == StoreInit /\ RunIdle

GetToken ==
  \E fault \in ReadFaults(tokenFile) :
    LET r == getToken(tokenFile, encryptionKey, fault)
    IN /\ ret' = Result("get", fault, r.raised, r.value)
       /\ UNCHANGED <<configDir, tokenFile, machineId, lastSet>>
       /\ UNCHANGED runVars

HasToken ==
  \E fault \in ReadFaults(tokenFile) :
    /\ ret' = Result("has", fault, FALSE,
                     IF hasToken(tokenFile, encryptionKey, fault)
                     THEN <<"true">> ELSE <<"false">>)
    /\ UNCHANGED <<configDir, tokenFile, machineId, lastSet>>
    /\ UNCHANGED runVars

SetToken ==
  \E text \in Tokens, iv \in IVs :
    \E encrypted \in {encrypt(text, encryptionKey, iv)} :
     \E fault \in WriteFaults(configDir) :
      LET r == setToken(configDir, tokenFile, encrypted, fault)
      IN /\ configDir' = r.dir
         /\ tokenFile' = r.file
         /\ ret' = Result("set", fault, r.raised, Null)
         /\ lastSet' = IF r.raised THEN NoSet ELSE text
         /\ UNCHANGED machineId
         /\ UNCHANGED runVars

ClearToken ==
  \E fault \in UnlinkFaults(tokenFile) :
    LET r == clearToken(tokenFile, fault)
    IN /\ tokenFile' = r.file
       /\ ret' = Result("clear", fault, r.raised, Null)
       /\ lastSet' = NoSet
       /\ UNCHANGED <<configDir, machineId>>
       /\ UNCHANGED runVars

\* Another run of the program under a different platform/arch identity: the
\* key is derived anew, the envelope file stays.
Restart ==
  \E m \in MachineIds \ {machineId} :
    /\ machineId' = m
    /\ ret' = Result("new", "none", FALSE, Null)
    /\ lastSet' = NoSet
    /\ UNCHANGED <<configDir, tokenFile>>
    /\ UNCHANGED runVars

\* Something outside the program damages the envelope the program has written.
ColonAt(file) ==
  IF \E i \in 1..Len(file) : file[i] = Colon
  THEN CHOOSE i \in 1..Len(file) :
         file[i] = Colon /\ \A m \in 1..(i - 1) : file[m] # Colon
  ELSE Len(file) + 1

OtherDigit(c) == IF c = HexChars[1] THEN HexChars[2] ELSE HexChars[1]

Edited(file) ==
  LET k == ColonAt(file)
      n == Len(file)
  IN { Take(file, k - 1) \o <<NonHex>> \o Drop(file, k - 1),  \* junk after the IV
       file \o <<Colon>>,                                     \* one more colon
       Take(file, k - 1) \o Drop(file, k),                    \* colon removed
       Take(file, n - 1) \o <<OtherDigit(file[n])>> }    \* last digit changed

Tamper ==
  /\ lastSet # NoSet
  /\ \E f \in Edited(tokenFile) :
       /\ tokenFile' = f
       /\ ret' = Result("edit", "none", FALSE, Null)
       /\ lastSet' = NoSet
       /\ UNCHANGED <<configDir, machineId>>
       /\ UNCHANGED runVars

StoreNext == GetToken \/ HasToken \/ SetToken \/ ClearToken

Spec == Init /\ [][StoreNext]_vars

EnvNext == StoreNext \/ Restart \/ Tamper

SpecEnv == Init /\ [][EnvNext]_vars

(***************************************************************************)
(* JSON values as JSON.parse returns them: <<"str", s>>, <<"num", n>>,     *)
(* <<"arr", sequence>>, <<"obj", function from keys>>, <<"null">>; a       *)
(* property that is not there reads as <<"undefined">>.                    *)
(***************************************************************************)
S(x) == <<"str", x>>
N(n) == <<"num", n>>
A(seq) == <<"arr", seq>>
O(fields) == <<"obj", fields>>
Undefined == <<"undefined">>

\* The values that count as false in `x || y` and in `x ? y : z`.
Falsy(v) == v \in {Undefined, Null, S(""), N(0)}
Or(v, d) == IF Falsy(v) THEN d ELSE v

\* parsed.key; reading a property of null throws a TypeError.
PropThrows(doc) == doc \in {Null, Undefined}
Prop(doc, key) ==
  IF doc[1] = "obj" /\ key \in DOMAIN doc[2] THEN doc[2][key] ELSE Undefined

\* `${v}` of a string or a number.
Str(v) == IF v[1] = "num" THEN ToString(v[2]) ELSE v[2]

(***************************************************************************)
(* COMMIT_TYPES; emoji are written by their code points.                   *)
(***************************************************************************)
COMMIT_TYPES ==
  << [type |-> "feat",     emoji |-> "U+2728"],
     [type |-> "fix",      emoji |-> "U+1F41B"],
     [type |-> "docs",     emoji |-> "U+1F4DA"],
     [type |-> "style",    emoji |-> "U+1F48E"],
     [type |-> "refactor", emoji |-> "U+267B U+FE0F"],
     [type |-> "perf",     emoji |-> "U+26A1"],
     [type |-> "test",     emoji |-> "U+1F9EA"],
     [type |-> "build",    emoji |-> "U+1F3D7 U+FE0F"],
     [type |-> "ci",       emoji |-> "U+1F477"],
     [type |-> "chore",    emoji |-> "U+1F527"],
     [type |-> "revert",   emoji |-> "U+23EA"] >>

CatalogTypes == { COMMIT_TYPES[i].type : i \in 1..Len(COMMIT_TYPES) }

(***************************************************************************)
(* generateCommitSuggestions, from the call of the service on.             *)
(* A response is <<"error">> (the call rejects), <<"empty">> (no choice or *)
(* empty content), <<"garbage">> (content JSON.parse rejects) or           *)
(* <<"json", doc>>.                                                        *)
(***************************************************************************)
Fallback ==
  [suggestedTypes  |-> A(<<S("feat"), S("fix"), S("chore")>>),
   suggestedScopes |-> A(<<>>),
   commitMessages  |-> A(<<S("update code"), S("improve functionality")>>)]

\* The body of the try block.
suggestBody(resp) ==
  IF resp[1] \in {"error", "empty", "garbage"} THEN Throw
  ELSE LET parsed == resp[2]
       IN IF PropThrows(parsed) THEN Throw
          ELSE Return([suggestedTypes  |-> Or(Prop(parsed, "types"), A(<<>>)),
                       suggestedScopes |-> Or(Prop(parsed, "scopes"), A(<<>>)),
                       commitMessages  |-> Or(Prop(parsed, "messages"), A(<<>>))])

\* generateCommitSuggestions without its catch block.
generateCommitSuggestionsNoCatch(resp) ==
  LET r == suggestBody(resp)
  IN [raised |-> r.threw, value |-> r.value, out |-> <<>>]

generateCommitSuggestions(resp) ==
  LET r == suggestBody(resp)
  IN IF r.threw
     THEN [raised |-> FALSE, value |-> Fallback,
           out |-> <<Err("Failed to generate AI suggestions")>>]
     ELSE [raised |-> FALSE, value |-> r.value, out |-> <<>>]

GoodDoc == ("types" :> A(<<S("fix"), S("docs")>>))
           @@ ("scopes" :> A(<<S("auth")>>))
           @@ ("messages" :> A(<<S("add login")>>))
Keys == {"types", "scopes", "messages"}
BadValues == {S("feat"), S(""), N(0), N(7), A(<<N(7)>>), A(<<>>), Null}
Without(f, k) == [x \in (DOMAIN f) \ {k} |-> f[x]]
Docs ==
  {O(GoodDoc), O(<<>>), Null, N(7), S("feat"), A(<<S("feat")>>)}
    \cup { O([GoodDoc EXCEPT ![k] = v]) : k \in Keys, v \in BadValues }
    \cup { O(Without(GoodDoc, k)) : k \in Keys }
Responses == {<<"error">>, <<"empty">>, <<"garbage">>}
               \cup { <<"json", d>> : d \in Docs }

(***************************************************************************)
(* formatCommitMessage.                                                    *)
(***************************************************************************)
Emoji(type) ==
  IF \E i \in 1..Len(COMMIT_TYPES) : COMMIT_TYPES[i].type = type
  THEN COMMIT_TYPES[CHOOSE i \in 1..Len(COMMIT_TYPES) :
                      COMMIT_TYPES[i].type = type].emoji
  ELSE ""

\* formatCommitMessage that writes the parentheses whatever the scope.
formatCommitMessageAlwaysScope(type, scope, message) ==
  type \o "(" \o scope \o ")" \o ": " \o Emoji(type) \o " " \o message

formatCommitMessage(type, scope, message) ==
  LET emoji    == Emoji(type)
      scopeStr == IF scope # "" THEN "(" \o scope \o ")" ELSE ""
  IN type \o scopeStr \o ": " \o emoji \o " " \o message

(***************************************************************************)
(* The command-line program: AICommitGenerator.run and what it calls.      *)
(*   pc    : the await or call the run has reached                         *)
(*   log   : what console.log / console.error have printed, as             *)
(*           <<stream, text>>                                              *)
(*   calls : what has happened in this run (prompts shown, outside calls   *)
(*           made, failures met)                                           *)
(***************************************************************************)
Whitespace == {" "}

RECURSIVE TrimStart(_)
TrimStart(s) ==
  IF s # <<>> /\ Head(s) \in Whitespace THEN TrimStart(Tail(s)) ELSE s

RECURSIVE TrimEnd(_)
TrimEnd(s) ==
  IF s # <<>> /\ s[Len(s)] \in Whitespace THEN TrimEnd(Take(s, Len(s) - 1)) ELSE s

Trim(s) == TrimEnd(TrimStart(s))

StartsWith(s, prefix) ==
  Len(s) >= Len(prefix) /\ Take(s, Len(prefix)) = prefix

\* String.prototype.substring(from, to) and substring(from), 0-based, with
\* the arguments clamped to 0..length.
Clamp(n, len) == IF n < 0 THEN 0 ELSE IF n > len THEN len ELSE n
Substring(s, from, to) ==
  LET a == Clamp(from, Len(s))
      b == Clamp(to, Len(s))
  IN IF a <= b THEN Take(Drop(s, a), b - a) ELSE Take(Drop(s, b), a - b)

\* The validate function of the password prompts.
Validate(input) == Trim(input) # <<>> /\ StartsWith(input, <<"s", "k", "-">>)

PromptInputs == {LongToken, <<"s", "k", "-", " ">>, <<" ", "s", "k", "-", "a">>,
                 <<"a", "b">>, <<" ">>, <<>>}

Diffs == {<<>>, <<" ">>, <<"d">>}

Exit(code) == pc' = "exited" /\ exitCode' = code

StoredEnvelope == encrypt(LongToken, generateEncryptionKey(1), IvSample(0))

\* What an earlier run's password prompt accepted and setToken stored.
AcceptedTokens   == {Trim(input) : input \in {i \in PromptInputs : Validate(i)}}
EarlierEnvelopes ==
  {encrypt(t, generateEncryptionKey(1), IvSample(0)) : t \in AcceptedTokens}

RunInit ==
  /\ machineId = 1
  /\ \E fs \in {<<FALSE, NoFile>>, <<TRUE, NoFile>>, <<TRUE, StoredEnvelope>>}
                \cup {<<TRUE, e>> : e \in EarlierEnvelopes} :
       configDir = fs[1] /\ tokenFile = fs[2]
  /\ ret = Result("new", "none", FALSE, Null)
  /\ lastSet = NoSet
  /\ pc = "run"
  /\ argv \in SUBSET {"--help", "--token"}
  /\ gitDir \in BOOLEAN
  /\ diff = <<>>
  /\ token = Null
  /\ response = Null
  /\ suggestions = Null
  /\ formatArgs = Null
  /\ finalMessage = Null
  /\ exitCode = -1
  /\ log = <<>>
  /\ calls = {}

Run ==
  /\ pc = "run"
  /\ IF "--help" \in argv
     THEN /\ log' = Append(log, Out("Usage"))
          /\ Exit(0)
     ELSE IF "--token" \in argv
     THEN /\ log' = Append(log, Out("Token Management"))
          /\ pc' = "showTokenManagementMenu"
          /\ UNCHANGED exitCode
     ELSE IF ~gitDir
     THEN /\ log' = Append(log, Err("Not in a git repository"))
          /\ Exit(1)
     ELSE /\ log' = Append(log, Out("Analyzing changes"))
          /\ pc' = "getGitDiff"
          /\ UNCHANGED exitCode
  /\ UNCHANGED <<argv, gitDir, diff, token, response, suggestions,
                 formatArgs, finalMessage, calls>>
  /\ UNCHANGED storeVars

\* The masked token of showTokenStatus.
MaskedToken(t) ==
  Substring(t, 0, 7) \o <<".", ".", ".">> \o Substring(t, Len(t) - 4, Len(t))

showTokenStatus(file, key, fault1, fault2) ==
  LET has == hasToken(file, key, fault1)
      t   == getToken(file, key, fault2)
  IN IF ~has
     THEN getToken(file, key, fault1).out \o <<Out("No token stored")>>
     ELSE <<Out("Token stored")>> \o t.out
            \o (IF t.value # Null THEN <<<<"token", MaskedToken(t.value)>>>>
                 ELSE <<>>)

ShowTokenManagementMenu ==
  /\ pc = "showTokenManagementMenu"
  /\ \E action \in {"set", "clear", "status", "back"} :
       \/ /\ action = "set"
          /\ pc' = "setNewToken"
          /\ UNCHANGED <<tokenFile, log, exitCode>>
       \/ /\ action = "clear"
          /\ \E fault \in UnlinkFaults(tokenFile) :
               LET r == clearToken(tokenFile, fault)
               IN /\ tokenFile' = r.file
                  /\ log' = log \o r.out
          /\ Exit(0)
       \/ /\ action = "status"
          /\ \E fault1 \in ReadFaults(tokenFile), fault2 \in ReadFaults(tokenFile) :
               log' = log \o showTokenStatus(tokenFile, encryptionKey,
                                             fault1, fault2)
          /\ Exit(0)
          /\ UNCHANGED tokenFile
       \/ /\ action = "back"
          /\ Exit(0)
          /\ UNCHANGED <<tokenFile, log>>
  /\ UNCHANGED <<configDir, machineId, ret, lastSet>>
  /\ UNCHANGED <<argv, gitDir, diff, token, response, suggestions,
                 formatArgs, finalMessage, calls>>

\* setNewToken; what setToken throws leaves run() and is printed by its
\* .catch(console.error), after which the process ends normally.
SetNewToken ==
  /\ pc = "setNewToken"
  /\ \E input \in PromptInputs, iv \in IVs :
       /\ Validate(input)
       /\ \E encrypted \in {encrypt(Trim(input), encryptionKey, iv)} :
           \E fault \in WriteFaults(configDir) :
             LET r == setToken(configDir, tokenFile, encrypted, fault)
             IN /\ configDir' = r.dir
                /\ tokenFile' = r.file
                /\ log' = log \o r.out
                          \o (IF r.raised THEN <<Err("error")>> ELSE <<>>)
                /\ calls' = calls \cup {"tokenPrompt"}
                            \cup (IF r.raised THEN {"saveFailed"} ELSE {})
  /\ Exit(0)
  /\ UNCHANGED <<machineId, ret, lastSet>>
  /\ UNCHANGED <<argv, gitDir, diff, token, response, suggestions,
                 formatArgs, finalMessage>>

\* getGitDiff without the exit when nothing has changed.
getGitDiffNoExit(staged, unstaged, fault) ==
  IF fault = "staged"
  THEN [exit |-> 1, diff |-> <<>>, out |-> <<Err("Failed to get git diff")>>]
  ELSE IF Trim(staged) # <<>>
  THEN [exit |-> -1, diff |-> staged, out |-> <<>>]
  ELSE IF fault = "unstaged"
  THEN [exit |-> 1, diff |-> <<>>, out |-> <<Err("Failed to get git diff")>>]
  ELSE [exit |-> -1, diff |-> unstaged, out |-> <<>>]

\* getGitDiff; fault names the git command that fails.
getGitDiff(staged, unstaged, fault) ==
  IF fault = "staged"
  THEN [exit |-> 1, diff |-> <<>>, out |-> <<Err("Failed to get git diff")>>]
  ELSE IF Trim(staged) # <<>>
  THEN [exit |-> -1, diff |-> staged, out |-> <<>>]
  ELSE IF fault = "unstaged"
  THEN [exit |-> 1, diff |-> <<>>, out |-> <<Err("Failed to get git diff")>>]
  ELSE IF Trim(unstaged) # <<>>
  THEN [exit |-> -1, diff |-> unstaged, out |-> <<>>]
  ELSE [exit |-> 0, diff |-> <<>>, out |-> <<Out("No changes detected")>>]

GetGitDiff ==
  /\ pc = "getGitDiff"
  /\ \E staged \in Diffs, unstaged \in Diffs,
        fault \in {"none", "staged", "unstaged"} :
       LET r == getGitDiff(staged, unstaged, fault)
       IN /\ log' = log \o r.out
          /\ diff' = r.diff
          /\ calls' = calls \cup
               (IF fault = "none" /\ staged = <<>> /\ unstaged = <<>>
                THEN {"bothDiffsEmpty"} ELSE {})
          /\ IF r.exit >= 0 THEN Exit(r.exit)
             ELSE pc' = "getOrRequestToken" /\ UNCHANGED exitCode
  /\ UNCHANGED <<argv, gitDir, token, response, suggestions, formatArgs,
                 finalMessage>>
  /\ UNCHANGED storeVars

\* getOrRequestToken up to its first prompt.
GetOrRequestToken ==
  /\ pc = "getOrRequestToken"
  /\ \E fault \in ReadFaults(tokenFile) :
       LET r == getToken(tokenFile, encryptionKey, fault)
       IN IF r.value # Null
          THEN /\ token' = r.value
               /\ log' = log \o r.out
               /\ pc' = "callService"
          ELSE /\ token' = Null
               /\ log' = log \o r.out \o <<Out("No API token found")>>
               /\ pc' = "promptToken"
  /\ UNCHANGED <<argv, gitDir, diff, response, suggestions, formatArgs,
                 finalMessage, exitCode, calls>>
  /\ UNCHANGED storeVars

PromptToken ==
  /\ pc = "promptToken"
  /\ \E input \in PromptInputs :
       /\ Validate(input)
       /\ token' = Trim(input)
  /\ calls' = calls \cup {"tokenPrompt"}
  /\ pc' = "promptSave"
  /\ UNCHANGED <<argv, gitDir, diff, response, suggestions, formatArgs,
                 finalMessage, exitCode, log>>
  /\ UNCHANGED storeVars

\* The confirm prompt of getOrRequestToken and the save; what setToken throws
\* is caught by generateCommit.
PromptSave ==
  /\ pc = "promptSave"
  /\ \E saveToken \in BOOLEAN :
       IF saveToken
       THEN \E iv \in IVs :
            \E encrypted \in {encrypt(token, encryptionKey, iv)} :
            \E fault \in WriteFaults(configDir) :
              LET r == setToken(configDir, tokenFile, encrypted, fault)
              IN /\ configDir' = r.dir
                 /\ tokenFile' = r.file
                 /\ IF r.raised
                    THEN /\ log' = log \o r.out
                                       \o <<Err("An error occurred")>>
                         /\ calls' = calls \cup {"saveFailed"}
                         /\ Exit(1)
                    ELSE /\ log' = log \o r.out
                         /\ pc' = "callService"
                         /\ UNCHANGED <<calls, exitCode>>
       ELSE /\ pc' = "callService"
            /\ UNCHANGED <<configDir, tokenFile, log, calls, exitCode>>
  /\ UNCHANGED <<machineId, ret, lastSet>>
  /\ UNCHANGED <<argv, gitDir, diff, token, response, suggestions,
                 formatArgs, finalMessage>>

CallService ==
  /\ pc = "callService"
  /\ \E resp \in Responses :
       LET r == generateCommitSuggestions(resp)
       IN /\ response' = resp
          /\ IF r.raised
             THEN /\ suggestions' = Null
                  /\ log' = log \o <<Err("An error occurred")>>
                  /\ calls' = calls \cup {"service", "suggestThrew"}
                  /\ Exit(1)
             ELSE /\ suggestions' = r.value
                  /\ log' = log \o r.out
                  /\ calls' = calls \cup {"service"}
                  /\ pc' = "select"
                  /\ UNCHANGED exitCode
  /\ UNCHANGED <<argv, gitDir, diff, token, formatArgs, finalMessage>>
  /\ UNCHANGED storeVars

\* suggested.includes(type) needs an array or a string, suggested.map(...)
\* an array; anything else throws a TypeError.
SelectThrows(sug) ==
  \/ sug.suggestedTypes[1] \notin {"arr", "str"}
  \/ sug.suggestedScopes[1] # "arr"
  \/ sug.commitMessages[1] # "arr"

Elements(arr) == { arr[2][i] : i \in 1..Len(arr[2]) }
CustomScope   == "core"
CustomMessage == "tidy up"
ScopeChoices(sug) ==
  {""} \cup { Str(v) : v \in Elements(sug.suggestedScopes) } \cup {CustomScope}
MessageChoices(sug) ==
  { Str(v) : v \in Elements(sug.commitMessages) } \cup {CustomMessage}

\* selectCommitType, selectScope, selectCommitMessage and the preview.
Select ==
  /\ pc = "select"
  /\ IF SelectThrows(suggestions)
     THEN /\ log' = Append(log, Err("An error occurred"))
          /\ UNCHANGED <<formatArgs, finalMessage>>
          /\ Exit(1)
     ELSE /\ \E type \in CatalogTypes, scope \in ScopeChoices(suggestions),
                message \in MessageChoices(suggestions) :
               /\ formatArgs' = <<type, scope, message>>
               /\ finalMessage' = formatCommitMessage(type, scope, message)
          /\ log' = Append(log, Out("Commit message preview"))
          /\ pc' = "confirm"
          /\ UNCHANGED exitCode
  /\ UNCHANGED <<argv, gitDir, diff, token, response, suggestions, calls>>
  /\ UNCHANGED storeVars

Confirm ==
  /\ pc = "confirm"
  /\ \E confirm \in BOOLEAN :
       IF confirm
       THEN /\ pc' = "commitChanges"
            /\ UNCHANGED <<log, exitCode>>
       ELSE /\ log' = Append(log, Out("Commit cancelled"))
            /\ Exit(0)
  /\ UNCHANGED <<argv, gitDir, diff, token, response, suggestions,
                 formatArgs, finalMessage, calls>>
  /\ UNCHANGED storeVars

\* commitChanges; fault names the git command that fails.
commitChanges(stagedFiles, fault) ==
  IF fault = "names" THEN [exit |-> 1, out |-> <<Err("Failed to commit")>>]
  ELSE IF ~stagedFiles /\ fault = "add"
  THEN [exit |-> 1, out |-> <<Out("Staging all changes"), Err("Failed to commit")>>]
  ELSE IF fault = "commit"
  THEN [exit |-> 1,
        out |-> (IF stagedFiles THEN <<>> ELSE <<Out("Staging all changes")>>)
                  \o <<Err("Failed to commit")>>]
  ELSE [exit |-> 0,
        out |-> (IF stagedFiles THEN <<>> ELSE <<Out("Staging all changes")>>)
                  \o <<Out("Commit successful")>>]

CommitChanges ==
  /\ pc = "commitChanges"
  /\ \E stagedFiles \in BOOLEAN, fault \in {"none", "names", "add", "commit"} :
       /\ (fault = "add" => ~stagedFiles)
       /\ LET r == commitChanges(stagedFiles, fault)
          IN /\ log' = log \o r.out
             /\ calls' = calls \cup {"commit"}
                         \cup (IF fault # "none" THEN {"commitFailed"} ELSE {})
             /\ Exit(r.exit)
  /\ UNCHANGED <<argv, gitDir, diff, token, response, suggestions,
                 formatArgs, finalMessage>>
  /\ UNCHANGED storeVars

RunNext ==
  \/ Run
  \/ ShowTokenManagementMenu
  \/ SetNewToken
  \/ GetGitDiff
  \/ GetOrRequestToken
  \/ PromptToken
  \/ PromptSave
  \/ CallService
  \/ Select
  \/ Confirm
  \/ CommitChanges

SpecRun == RunInit /\ [][RunNext]_vars

(***************************************************************************)
(* formatCommitMessage called on its own, with any type, scope, message.   *)
(***************************************************************************)
FormatTypes    == CatalogTypes \cup {"wip", ""}
FormatScopes   == {"", "auth", "readme"}
FormatMessages == {"implement OAuth2 login flow", "add installation instructions"}

FormatInit ==
  /\ StoreInit
  /\ pc = "format"
  /\ argv = {}
  /\ gitDir = TRUE
  /\ diff = <<>>
  /\ token = Null
  /\ response = Null
  /\ suggestions = Null
  /\ formatArgs \in FormatTypes \X FormatScopes \X FormatMessages
  /\ finalMessage = Null
  /\ exitCode = -1
  /\ log = <<>>
  /\ calls = {}

Format ==
  /\ pc = "format"
  /\ finalMessage' = formatCommitMessage(formatArgs[1], formatArgs[2],
                                           formatArgs[3])
  /\ pc' = "formatted"
  /\ UNCHANGED <<argv, gitDir, diff, token, response, suggestions, formatArgs,
                 exitCode, log, calls>>
  /\ UNCHANGED storeVars

SpecFormat == FormatInit /\ [][Format]_vars

(***************************************************************************)
(* Properties of the store.                                                *)
(***************************************************************************)
WellFormed(text) == \A i \in 1..Len(text) : text[i] # LoneSurrogate
ZeroIv == IvSample(0)

\* C1 (as stated): once set(s) has completed and no later set or clear has
\* run, get() returns exactly s, for any credential string s.
C1_AnyStringReadsBack ==
  (ret.op = "get" /\ lastSet # NoSet) => ret.value = lastSet

\* C1 (amended): once set(s) has completed for a non-empty s without unpaired
\* surrogates and no later set or clear has run, a get() whose file read
\* succeeds returns exactly s, whatever IV the set drew.
C1_RoundTrip ==
  (/\ ret.op = "get"
   /\ ret.fault = "none"
   /\ lastSet # NoSet
   /\ lastSet # <<>>
   /\ WellFormed(lastSet)) => ret.value = lastSet

\* A credential read back from an envelope written under a non-zero IV.
C1_Witness ==
  /\ ret.op = "get"
  /\ lastSet # NoSet /\ lastSet # <<>> /\ WellFormed(lastSet)
  /\ tokenFile # encrypt(lastSet, encryptionKey, ZeroIv)
  /\ ret.value = lastSet

GetFails ==
  \/ tokenFile = NoFile
  \/ ret.fault = "read"
  \/ Len(Split(tokenFile)) # 2
  \/ decrypt(tokenFile, encryptionKey).threw

TwoHexFields(file) ==
  LET parts == Split(file)
  IN /\ Len(parts) = 2
     /\ \A p \in 1..2 :
          /\ parts[p] # <<>>
          /\ \A i \in 1..Len(parts[p]) : parts[p][i] \in HexDigits

\* C3: for every envelope file that does not split into exactly two non-empty
\* hex fields, get() returns null.
C3_RejectsMalformedEnvelope ==
  (ret.op = "get" /\ tokenFile # NoFile /\ ~TwoHexFields(tokenFile))
    => ret.value = Null

\* C7 (as stated): after a clear(), get() returns null.
C7_ClearAlwaysRemoves ==
  ret.op = "clear" => getToken(tokenFile, encryptionKey, "none").value = Null

\* C7 (amended): clear() never raises; after a clear() whose removal of the
\* file did not fail the file is gone and get() returns null, and a second
\* clear() directly after it changes nothing and raises nothing.
C7_ClearIdempotent ==
  /\ [](ret.op = "clear" =>
          /\ ~ret.raised
          /\ ret.fault = "none" =>
                /\ tokenFile = NoFile
                /\ getToken(tokenFile, encryptionKey, "none").value = Null)
  /\ [][(ret.op = "clear" /\ ret.fault = "none" /\ ClearToken)
         => (/\ tokenFile' = tokenFile
             /\ configDir' = configDir
             /\ ret' = ret)]_vars

\* A clear() that removed a stored credential.
C7_Witness ==
  /\ ret.op = "clear"
  /\ ret.fault = "none"
  /\ tokenFile = NoFile
  /\ configDir

\* C8: a setToken whose write fails leaves the envelope file as it was, or
\* absent.
C8_NoPartialEnvelope ==
  [][(SetToken /\ ret'.raised)
       => (tokenFile' = tokenFile \/ tokenFile' = NoFile)]_vars

(***************************************************************************)
(* Properties of the suggestion pipeline, of formatCommitMessage and of    *)
(* the workflow.                                                           *)
(***************************************************************************)
ServiceFailed == response # Null /\ response[1] \in {"error", "empty", "garbage"}

\* C4: when the service call fails, or its response is empty or is not JSON,
\* generateCommitSuggestions returns exactly the fallback set and the error
\* does not reach its caller.
C4_FallbackOnFailure ==
  ServiceFailed =>
    /\ "suggestThrew" \notin calls
    /\ suggestions = Fallback

\* The suggestions after a rejected service call.
C4_Witness ==
  /\ response = <<"error">>
  /\ pc = "select"
  /\ suggestions = Fallback

IsStringList(v) ==
  /\ v[1] = "arr"
  /\ \A i \in 1..Len(v[2]) : v[2][i][1] = "str"

LacksKey(k) ==
  /\ response[1] = "json"
  /\ response[2][1] = "obj"
  /\ k \notin DOMAIN response[2][2]

\* C5: for every response the three returned lists are sequences of strings,
\* and the list of a key missing from a JSON object is the empty sequence.
C5_ListsOfStrings ==
  (response # Null /\ "suggestThrew" \notin calls) =>
    /\ IsStringList(suggestions.suggestedTypes)
    /\ IsStringList(suggestions.suggestedScopes)
    /\ IsStringList(suggestions.commitMessages)
    /\ LacksKey("types") => suggestions.suggestedTypes = A(<<>>)
    /\ LacksKey("scopes") => suggestions.suggestedScopes = A(<<>>)
    /\ LacksKey("messages") => suggestions.commitMessages = A(<<>>)

\* The emoji the catalog gives a type, the empty string for a type it lacks.
CatalogEmoji(type) ==
  LET es == { COMMIT_TYPES[i].emoji :
                i \in { j \in 1..Len(COMMIT_TYPES) : COMMIT_TYPES[j].type = type } }
  IN IF es = {} THEN "" ELSE CHOOSE e \in es : TRUE

\* C6: format(type, scope, message) is "<type>(<scope>): <emoji> <message>"
\* when scope is non-empty and "<type>: <emoji> <message>" when it is empty,
\* with the catalog emoji of type, or the empty string for an unknown type.
C6_Format ==
  pc = "formatted" =>
    LET type    == formatArgs[1]
        scope   == formatArgs[2]
        message == formatArgs[3]
    IN /\ scope # "" =>
            finalMessage = type \o "(" \o scope \o "): " \o CatalogEmoji(type)
                             \o " " \o message
       /\ scope = "" =>
            finalMessage = type \o ": " \o CatalogEmoji(type) \o " " \o message
       /\ formatArgs = <<"feat", "auth", "implement OAuth2 login flow">>
            => finalMessage = "feat(auth): U+2728 implement OAuth2 login flow"
       /\ formatArgs = <<"docs", "", "add installation instructions">>
            => finalMessage = "docs: U+1F4DA add installation instructions"

\* A type the catalog lacks, formatted with a scope.
C6_Witness ==
  /\ pc = "formatted"
  /\ formatArgs = <<"wip", "auth", "implement OAuth2 login flow">>
  /\ finalMessage = "wip(auth):  implement OAuth2 login flow"

Printed(line) == \E i \in 1..Len(log) : log[i] = line
PrintedError  == \E i \in 1..Len(log) : log[i][1] = "error"

\* C9: a failed write of the credential, and a failed commit step, each end
\* the process with a non-zero status after a diagnostic, in the commit flow
\* and in the --token menu.
C9_FailuresExitNonZero ==
  (pc = "exited" /\ calls \cap {"saveFailed", "commitFailed"} # {}) =>
    (PrintedError /\ exitCode # 0)

\* C10: when the staged and the unstaged diff are both empty the run ends
\* with status 0 after a notice, and has not prompted for the credential,
\* called the service or committed.
C10_EmptyDiffExitsClean ==
  "bothDiffsEmpty" \in calls =>
    /\ pc = "exited"
    /\ exitCode = 0
    /\ Printed(Out("No changes detected"))
    /\ calls \cap {"tokenPrompt", "service", "commit"} = {}
    /\ response = Null

\* A run in a repository with nothing staged and nothing changed.
C10_Witness ==
  /\ "bothDiffsEmpty" \in calls
  /\ pc = "exited"
  /\ exitCode = 0

PrefixLen == 7
SuffixLen == 4
Ellipsis  == <<".", ".", ".">>

\* The credential the store holds.
HeldToken == getToken(tokenFile, encryptionKey, "none").value

Occurs(t, line) ==
  \E i \in 0..(Len(line) - Len(t)) : Take(Drop(line, i), Len(t)) = t

\* C11: for every credential the token prompt accepts and the store holds,
\* the token-status line is a 7-character prefix, an ellipsis and a
\* 4-character suffix of the credential, does not contain the credential in
\* full, and leaves at least one of its characters undisplayed.
C11_StatusNeverShowsCredential ==
  \A i \in 1..Len(log) :
    log[i][1] = "token" =>
      LET t    == HeldToken
          line == log[i][2]
      IN /\ t \in AcceptedTokens
         /\ Len(line) = PrefixLen + Len(Ellipsis) + SuffixLen
         /\ Take(line, PrefixLen) = Take(t, PrefixLen)
         /\ Drop(line, PrefixLen + Len(Ellipsis)) = Drop(t, Len(t) - SuffixLen)
         /\ ~Occurs(t, line)
         /\ Len(t) > PrefixLen + SuffixLen
====
